---------------------------- MODULE Spec2Model ----------------------------
(***************************************************************************)
(* Model of the response validation pipeline of the clinical-trial         *)
(* screener (src/screening_utils.py): _extract_json_candidate,             *)
(* _ensure_list, _normalize_decision, _validate_and_fix_result and         *)
(* screen_patient.                                                         *)
(*                                                                         *)
(* Python values are tagged records:                                       *)
(*   None  -> [t |-> "null"]          str   -> [t |-> "str",  s |-> toks]  *)
(*   int   -> [t |-> "num", n |-> i]  bool  -> [t |-> "bool", b |-> b]     *)
(*   list  -> [t |-> "list", items |-> <<values>>]   {} -> [t |-> "dict"]   *)
(* A Python str is a sequence of tokens.  A token is the whitespace        *)
(* character SP, a maximal run of non-whitespace characters, or one of the *)
(* fixed message texts of the program.  A dict is a function from the set  *)
(* of its keys to values.                                                  *)
(***************************************************************************)
EXTENDS Integers, Sequences, FiniteSets, TLC

VARIABLES
    pc,          \* position of the driver of the operation under study
    draft,       \* the parsed JSON object handed to _validate_and_fix_result
    fixed,       \* the dict it returned (the same object, mutated in place)
    warnings,    \* the validation_warnings it returned
    refixed,     \* the dict returned when it is applied to fixed again
    rewarnings,  \* the warnings of that second application
    call,        \* the arguments and environment of a screen_patient call
    outcome,     \* what the call did: [raised, ret]
    text,        \* the raw model text handed to _extract_json_candidate
    parts,       \* how that text was put together: [pre, obj, post]
    candidate,   \* the string _extract_json_candidate returned
    store,       \* the result store, the file screening_results.csv
    run,         \* the batch run of app.py in progress: its locals
    nruns        \* number of batch runs started so far

vars == <<pc, draft, fixed, warnings, refixed, rewarnings,
          call, outcome, text, parts, candidate, store, run, nruns>>

\* the variables of the batch layer (src/app.py) and of the core
appvars == <<store, run, nruns>>
corevars == <<draft, fixed, warnings, refixed, rewarnings,
              call, outcome, text, parts, candidate>>

None == "none"   \* value of a variable the running specification does not use

\* the batch layer is not part of the running specification
NoApp == store = None /\ run = None /\ nruns = None

-----------------------------------------------------------------------------
(* Python values *)

SP == " "

JNull == [t |-> "null"]
JStr(s) == [t |-> "str", s |-> s]
JNum(n) == [t |-> "num", n |-> n]
JBool(b) == [t |-> "bool", b |-> b]
JList(items) == [t |-> "list", items |-> items]
JEmptyObj == [t |-> "dict"]   \* the empty dict {} as a value

\* A string literal of the program that holds no whitespace to trim.
Lit(w) == JStr(<<w>>)

\* bool(v): the truth value Python gives v in 'if not v'.
Truthy(v) ==
    CASE v.t = "null" -> FALSE
      [] v.t = "str"  -> Len(v.s) > 0
      [] v.t = "num"  -> v.n # 0
      [] v.t = "bool" -> v.b
      [] v.t = "list" -> Len(v.items) > 0
      [] v.t = "dict" -> FALSE

RECURSIVE LStrip(_)
LStrip(s) == IF s # <<>> /\ Head(s) = SP THEN LStrip(Tail(s)) ELSE s

RECURSIVE RStrip(_)
RStrip(s) ==
    IF s # <<>> /\ s[Len(s)] = SP THEN RStrip(SubSeq(s, 1, Len(s) - 1)) ELSE s

\* str.strip()
Strip(s) == RStrip(LStrip(s))

UpperTok(w) ==
    CASE w = "eligible"   -> "ELIGIBLE"
      [] w = "ineligible" -> "INELIGIBLE"
      [] w = "uncertain"  -> "UNCERTAIN"
      [] w = "unsure"     -> "UNSURE"
      [] w = "maybe"      -> "MAYBE"
      [] OTHER            -> w

\* str.upper()
Upper(s) == [i \in 1..Len(s) |-> UpperTok(s[i])]

NumTok(n) == ToString(n)

\* repr(x) of a scalar, as it appears inside str(list)
Repr(v) ==
    CASE v.t = "null" -> <<"None">>
      [] v.t = "str"  -> <<"'">> \o v.s \o <<"'">>
      [] v.t = "num"  -> <<NumTok(v.n)>>
      [] v.t = "bool" -> <<IF v.b THEN "True" ELSE "False">>
      [] v.t = "dict" -> <<"{", "}">>
      [] OTHER        -> <<"[...]">>

RECURSIVE ReprItems(_)
ReprItems(items) ==
    IF items = <<>> THEN <<>>
    ELSE IF Len(items) = 1 THEN Repr(items[1])
    ELSE Repr(items[1]) \o <<",", SP>> \o ReprItems(Tail(items))

\* str(x)
PyStr(v) ==
    CASE v.t = "null" -> <<"None">>
      [] v.t = "str"  -> v.s
      [] v.t = "num"  -> <<NumTok(v.n)>>
      [] v.t = "bool" -> <<IF v.b THEN "True" ELSE "False">>
      [] v.t = "list" -> <<"[">> \o ReprItems(v.items) \o <<"]">>
      [] v.t = "dict" -> <<"{", "}">>

\* dict operations
DictGet(r, k) == IF k \in DOMAIN r THEN r[k] ELSE JNull
DictGetOr(r, k, default) == IF k \in DOMAIN r THEN r[k] ELSE default
DictSet(r, k, v) == [x \in DOMAIN r \cup {k} |-> IF x = k THEN v ELSE r[x]]

-----------------------------------------------------------------------------
(* src/screening_utils.py *)

ALLOWED_DECISIONS == {"ELIGIBLE", "INELIGIBLE", "UNCERTAIN", "ERROR"}

EXPECTED_KEYS ==
    << "decision", "reason", "inclusion_criteria_met",
       "inclusion_criteria_not_met", "exclusion_criteria_met",
       "exclusion_criteria_not_met", "missing_info" >>

LIST_KEYS ==
    { "inclusion_criteria_met", "inclusion_criteria_not_met",
      "exclusion_criteria_met", "exclusion_criteria_not_met", "missing_info" }

\* every element stringified and trimmed, the blank ones kept
StrippedItems_KeepBlank(items) ==
    [i \in 1..Len(items) |-> JStr(Strip(PyStr(items[i])))]

\* [str(x).strip() for x in value if str(x).strip()]
RECURSIVE StrippedItems(_)
StrippedItems(items) ==
    IF items = <<>> THEN <<>>
    ELSE LET s == Strip(PyStr(Head(items)))
         IN  (IF s # <<>> THEN <<JStr(s)>> ELSE <<>>) \o StrippedItems(Tail(items))

_ensure_list(value) ==
    IF value.t = "null" THEN JList(<<>>)
    ELSE IF value.t = "list" THEN JList(StrippedItems(value.items))
    ELSE IF value.t = "str" THEN
        LET v == Strip(value.s)
        IN  IF v # <<>> THEN JList(<<JStr(v)>>) ELSE JList(<<>>)
    ELSE
        LET s == Strip(PyStr(value))
        IN  IF s # <<>> THEN JList(<<JStr(s)>>) ELSE JList(<<>>)

_normalize_decision(decision) ==
    IF decision.t = "null" THEN Lit("ERROR")
    ELSE LET d == Upper(Strip(PyStr(decision)))
         IN  IF d \in {<<"ELIGIBLE">>, <<"INELIG">>} THEN Lit("ELIGIBLE")
             ELSE IF d \in {<<"INELIGIBLE">>, <<"NOT_ELIGIBLE">>, <<"INELIGIBLE.">>}
                  THEN Lit("INELIGIBLE")
             ELSE IF d \in {<<"UNCERTAIN">>, <<"UNKNOWN">>, <<"UNSURE">>}
                  THEN Lit("UNCERTAIN")
             ELSE IF d = <<"ERROR">> THEN Lit("ERROR")
             ELSE Lit("ERROR")

\* f"Missing key '{k}' was added with a default value."
MissingKeyWarning(k) == "Missing key '" \o k \o "' was added with a default value."

WARN_INVALID == "Decision was invalid; set to ERROR."
WARN_REASON == "Reason was not a string; coerced to string."
WARN_RULE1 ==
    "Decision changed to INELIGIBLE because at least one exclusion criterion was met."
WARN_RULE2 ==
    "Decision changed to INELIGIBLE because at least one inclusion criterion was not met."
WARN_RULE3 ==
    "Decision changed to UNCERTAIN because missing information was reported."
WARN_FORCED == "Decision not in allowed set; forced to ERROR."
DEFAULT_REASON == "Invalid or missing decision returned by model."
NOTE_PREFIX == " | Validation: "
NOTE_ALONE == "Validation applied."

\* for k in EXPECTED_KEYS: if k not in result: result[k] = default
RECURSIVE FillMissing(_, _)
FillMissing(result, keys) ==
    IF keys = <<>> THEN result
    ELSE LET k == Head(keys)
             r == IF k \in DOMAIN result THEN result
                  ELSE DictSet(result, k,
                               IF k # "reason" /\ k # "decision"
                               THEN JList(<<>>) ELSE JStr(<<>>))
         IN  FillMissing(r, Tail(keys))

MissingWarnings(result) ==
    LET missing == SelectSeq(EXPECTED_KEYS, LAMBDA k : k \notin DOMAIN result)
    IN  [i \in 1..Len(missing) |-> MissingKeyWarning(missing[i])]

\* "; ".join(ws)
RECURSIVE JoinSemi(_)
JoinSemi(ws) ==
    IF ws = <<>> THEN <<>>
    ELSE IF Len(ws) = 1 THEN <<ws[1]>>
    ELSE <<ws[1], "; ">> \o JoinSemi(Tail(ws))

\* warnings[:2]
NOTE_LIMIT == 2
CitedWarnings(ws) == SubSeq(ws, 1, IF Len(ws) < NOTE_LIMIT THEN Len(ws) ELSE NOTE_LIMIT)

\* a fresh record of the expected fields only
NormalizeLists_DropOthers(r) ==
    [k \in LIST_KEYS \cup {"decision", "reason"} |->
        IF k \in LIST_KEYS THEN _ensure_list(DictGet(r, k)) ELSE r[k]]

\* lines 110-115: result[k] = _ensure_list(result.get(k)) for the five list keys
NormalizeLists(r) ==
    [k \in DOMAIN r \cup LIST_KEYS |->
        IF k \in LIST_KEYS THEN _ensure_list(DictGet(r, k)) ELSE r[k]]

\* rules 1 and 2 only
ApplyRules_NoRule3(r, ws) ==
    IF r["decision"] = Lit("ELIGIBLE") /\ Len(r["exclusion_criteria_met"].items) > 0
    THEN [res |-> DictSet(r, "decision", Lit("INELIGIBLE")), w |-> Append(ws, WARN_RULE1)]
    ELSE IF r["decision"] = Lit("ELIGIBLE")
            /\ Len(r["inclusion_criteria_not_met"].items) > 0
    THEN [res |-> DictSet(r, "decision", Lit("INELIGIBLE")), w |-> Append(ws, WARN_RULE2)]
    ELSE [res |-> r, w |-> ws]

\* the missing_info rule tried before the other two
ApplyRules_MissingFirst(r, ws) ==
    IF r["decision"] = Lit("ELIGIBLE") /\ Len(r["missing_info"].items) > 0
    THEN [res |-> DictSet(r, "decision", Lit("UNCERTAIN")), w |-> Append(ws, WARN_RULE3)]
    ELSE ApplyRules_NoRule3(r, ws)

\* the three rules, each on any decision but ERROR
ApplyRules_AnyDecision(r, ws) ==
    IF r["decision"] # Lit("ERROR") /\ Len(r["exclusion_criteria_met"].items) > 0
    THEN [res |-> DictSet(r, "decision", Lit("INELIGIBLE")), w |-> Append(ws, WARN_RULE1)]
    ELSE IF r["decision"] # Lit("ERROR")
            /\ Len(r["inclusion_criteria_not_met"].items) > 0
    THEN [res |-> DictSet(r, "decision", Lit("INELIGIBLE")), w |-> Append(ws, WARN_RULE2)]
    ELSE IF r["decision"] # Lit("ERROR") /\ Len(r["missing_info"].items) > 0
    THEN [res |-> DictSet(r, "decision", Lit("UNCERTAIN")), w |-> Append(ws, WARN_RULE3)]
    ELSE [res |-> r, w |-> ws]

\* lines 117-131: the three override rules, each on the current decision
ApplyRules(r, ws) ==
    LET r1 == IF r["decision"] = Lit("ELIGIBLE")
                 /\ Len(r["exclusion_criteria_met"].items) > 0
              THEN [res |-> DictSet(r, "decision", Lit("INELIGIBLE")),
                    w |-> Append(ws, WARN_RULE1)]
              ELSE [res |-> r, w |-> ws]
        r2 == IF r1.res["decision"] = Lit("ELIGIBLE")
                 /\ Len(r1.res["inclusion_criteria_not_met"].items) > 0
              THEN [res |-> DictSet(r1.res, "decision", Lit("INELIGIBLE")),
                    w |-> Append(r1.w, WARN_RULE2)]
              ELSE r1
        r3 == IF r2.res["decision"] = Lit("ELIGIBLE")
                 /\ Len(r2.res["missing_info"].items) > 0
              THEN [res |-> DictSet(r2.res, "decision", Lit("UNCERTAIN")),
                    w |-> Append(r2.w, WARN_RULE3)]
              ELSE r2
    IN  r3

\* the note appended whenever the decision is not ERROR
AddNote_Always(r, ws) ==
    IF r["decision"] # Lit("ERROR")
    THEN LET reason == Strip(r["reason"].s)
             note == <<NOTE_PREFIX>> \o JoinSemi(CitedWarnings(ws))
         IN  DictSet(r, "reason",
                     IF reason # <<>> THEN JStr(reason \o note)
                     ELSE JStr(<<NOTE_ALONE>> \o note))
    ELSE r

\* lines 138-145
AddNote(r, ws) ==
    IF ws # <<>> /\ r["decision"] # Lit("ERROR")
    THEN LET reason == Strip((IF Truthy(r["reason"]) THEN r["reason"] ELSE JStr(<<>>)).s)
             note == <<NOTE_PREFIX>> \o JoinSemi(CitedWarnings(ws))
         IN  DictSet(r, "reason",
                     IF reason # <<>> THEN JStr(reason \o note)
                     ELSE JStr(<<NOTE_ALONE>> \o note))
    ELSE r

_validate_and_fix_result(result) ==
    LET w0 == MissingWarnings(result)
        r0 == FillMissing(result, EXPECTED_KEYS)
        \* lines 100-104
        r1 == DictSet(r0, "decision", _normalize_decision(DictGet(r0, "decision")))
        bad == r1["decision"] = Lit("ERROR") /\ ~Truthy(DictGet(r1, "reason"))
        r2 == IF bad THEN DictSet(r1, "reason", Lit(DEFAULT_REASON)) ELSE r1
        w2 == IF bad THEN Append(w0, WARN_INVALID) ELSE w0
        \* lines 106-108
        notstr == DictGet(r2, "reason").t # "str"
        r3 == IF notstr
              THEN DictSet(r2, "reason",
                           JStr(Strip(PyStr(DictGetOr(r2, "reason", JStr(<<>>))))))
              ELSE r2
        w3 == IF notstr THEN Append(w2, WARN_REASON) ELSE w2
        r4 == NormalizeLists(r3)
        ruled == ApplyRules(r4, w3)
        \* lines 133-136
        forced == ruled.res["decision"] \notin {Lit(d) : d \in ALLOWED_DECISIONS}
        r6 == IF forced THEN DictSet(ruled.res, "decision", Lit("ERROR")) ELSE ruled.res
        w6 == IF forced THEN Append(ruled.w, WARN_FORCED) ELSE ruled.w
    IN  [result |-> AddNote(r6, w6), warnings |-> w6]

-----------------------------------------------------------------------------
(* _extract_json_candidate.  In a text each of the characters {, } and ",   *)
(* each whitespace character and each triple backtick is a token by itself. *)

LBRACE == "{"
RBRACE == "}"
QUOTE == "\""
FENCE == "<fence>"   \* stands for the three backtick characters
JSON_TAGS == {"json", "JSON", "Json"}

\* position after the run of whitespace that starts at i
RECURSIVE SkipSpace(_, _)
SkipSpace(txt, i) ==
    IF i <= Len(txt) /\ txt[i] = SP THEN SkipSpace(txt, i + 1) ELSE i

\* \s* and the closing fence match at position i
ClosesAt(txt, i) ==
    LET j == SkipSpace(txt, i) IN j <= Len(txt) /\ txt[j] = FENCE

\* the pattern of line 35, fence (?:json)? \s* ( { .*? } ) \s* fence, matched with
\* its opening fence at i:
\* the span <<first, last>> of group 1, or <<>> when there is no match at i
FenceMatchAt(txt, i) ==
    IF txt[i] # FENCE THEN <<>>
    ELSE LET j == IF i + 1 <= Len(txt) /\ txt[i + 1] \in JSON_TAGS
                  THEN i + 2 ELSE i + 1
             b == SkipSpace(txt, j)
         IN  IF b > Len(txt) \/ txt[b] # LBRACE THEN <<>>
             ELSE LET ends == {e \in b + 1 .. Len(txt) :
                                 txt[e] = RBRACE /\ ClosesAt(txt, e + 1)}
                  IN  IF ends = {} THEN <<>>
                      ELSE <<b, CHOOSE e \in ends : \A x \in ends : e <= x>>

\* no search for a fenced block
FenceSearch_Never(txt) == <<>>

\* re.search: the match with the leftmost opening fence
FenceSearch(txt) ==
    LET starts == {i \in 1..Len(txt) : FenceMatchAt(txt, i) # <<>>}
    IN  IF starts = {} THEN <<>>
        ELSE FenceMatchAt(txt, CHOOSE i \in starts : \A x \in starts : i <= x)

\* text.find("{"): 0 when there is none
FindBrace(txt) ==
    LET at == {i \in 1..Len(txt) : txt[i] = LBRACE}
    IN  IF at = {} THEN 0 ELSE CHOOSE i \in at : \A x \in at : i <= x

\* a greedy match: from the first { to the last } of the text
GreedyBrace(txt, i, depth) ==
    LET at == {e \in i..Len(txt) : txt[e] = RBRACE}
    IN  IF at = {} THEN 0 ELSE CHOOSE e \in at : \A x \in at : e >= x

\* the value of depth after the loop of lines 45-50 has read txt[i..e]
DepthAfter(txt, i, depth, e) ==
    depth + Cardinality({j \in i..e : txt[j] = LBRACE})
          - Cardinality({j \in i..e : txt[j] = RBRACE})

\* the loop of lines 44-52 from position i with the given depth: the first
\* position of a } at which the depth is zero (where the loop returns), or 0
MatchBrace(txt, i, depth) ==
    LET at == {e \in i..Len(txt) : txt[e] = RBRACE /\ DepthAfter(txt, i, depth, e) = 0}
    IN  IF at = {} THEN 0 ELSE CHOOSE e \in at : \A x \in at : e <= x

_extract_json_candidate(value) ==
    IF ~Truthy(value) THEN <<>>
    ELSE LET txt == value.s
             fence_match == FenceSearch(txt)
         IN  IF fence_match # <<>>
             THEN Strip(SubSeq(txt, fence_match[1], fence_match[2]))
             ELSE LET start == FindBrace(txt)
                  IN  IF start = 0 THEN <<>>
                      ELSE LET i == MatchBrace(txt, start, 0)
                           IN  IF i = 0 THEN <<>>
                               ELSE Strip(SubSeq(txt, start, i))

-----------------------------------------------------------------------------
(* Parsed model outputs handed to _validate_and_fix_result *)

Absent == [t |-> "absent"]   \* the key is not in the parsed object

DecisionInputs ==
    { Absent, JNull, JNum(1), JStr(<<>>),
      Lit("ELIGIBLE"), JStr(<<SP, "eligible", SP>>), Lit("INELIG"),
      Lit("INELIGIBLE"), Lit("NOT_ELIGIBLE"), Lit("INELIGIBLE."),
      Lit("UNCERTAIN"), Lit("UNKNOWN"), Lit("unsure"),
      Lit("ERROR"), Lit("MAYBE") }

ReasonInputs ==
    { Absent, JNum(7), JStr(<<>>), JStr(<<SP>>), JStr(<<SP, "ok", SP>>) }

\* values of exclusion_criteria_met, inclusion_criteria_not_met and
\* missing_info, the three fields the override rules read: absent keys, and
\* every combination of empty, blank and non-empty values
EvidenceInputs ==
    { <<Absent, Absent, Absent>>, <<Absent, Absent, JList(<<Lit("eGFR")>>)>> }
    \cup ( { JList(<<>>), JList(<<Lit("X")>>) }
           \X { JList(<<>>), JList(<<JStr(<<SP>>)>>), JList(<<Lit("X")>>) }
           \X { Absent, JList(<<>>), JList(<<Lit("eGFR")>>), Lit("eGFR") } )

\* a key of the model output outside EXPECTED_KEYS
EXTRA_KEY == "confidence"

\* values of inclusion_criteria_met, exclusion_criteria_not_met and the extra
\* key: the shapes _ensure_list distinguishes, with and without the extra key
OtherInputs ==
    { <<Absent, Absent, Absent>>,
      <<JNull, JNum(0), Absent>>,
      <<JStr(<<SP, "A", SP>>), Absent, JNum(9)>>,
      <<JStr(<<SP>>), JEmptyObj, JNum(9)>>,
      <<JList(<<JStr(<<SP, "A", SP>>), JStr(<<>>), Lit("B"), Lit("A"), JNum(5), JNull>>),
        JList(<<Lit("Z")>>), Absent>> }

\* the dict with the given values, a key being left out when its value is Absent
MkDict(d, rs, im, inm, em, enm, mi, ex) ==
    LET all == [decision |-> d, reason |-> rs, inclusion_criteria_met |-> im,
                inclusion_criteria_not_met |-> inm, exclusion_criteria_met |-> em,
                exclusion_criteria_not_met |-> enm, missing_info |-> mi,
                confidence |-> ex]
        present == {k \in DOMAIN all : all[k] # Absent}
    IN  [k \in present |-> all[k]]

-----------------------------------------------------------------------------
(* Specification of _validate_and_fix_result: the function is applied to a  *)
(* parsed object, then to the record it returned.                           *)

InitValidate ==
    /\ pc = "parsed"
    /\ \E d \in DecisionInputs, rs \in ReasonInputs, ev \in EvidenceInputs,
          o \in OtherInputs :
          draft = MkDict(d, rs, o[1], ev[2], ev[1], o[2], ev[3], o[3])
    /\ fixed = None /\ warnings = None
    /\ refixed = None /\ rewarnings = None
    /\ call = None /\ outcome = None
    /\ text = None /\ parts = None /\ candidate = None
    /\ NoApp

\* fixed, _warnings = _validate_and_fix_result(parsed)
Validate ==
    /\ pc = "parsed"
    /\ LET v == _validate_and_fix_result(draft)
       IN  fixed' = v.result /\ warnings' = v.warnings
    /\ pc' = "fixed"
    /\ UNCHANGED <<draft, refixed, rewarnings, call, outcome, text, parts, candidate>>
    /\ UNCHANGED appvars

\* the returned record is validated once more
Revalidate ==
    /\ pc = "fixed"
    /\ LET v == _validate_and_fix_result(fixed)
       IN  refixed' = v.result /\ rewarnings' = v.warnings
    /\ pc' = "refixed"
    /\ UNCHANGED <<draft, fixed, warnings, call, outcome, text, parts, candidate>>
    /\ UNCHANGED appvars

NextValidate == Validate \/ Revalidate

SpecValidate == InitValidate /\ [][NextValidate]_vars

-----------------------------------------------------------------------------
(* JSON text of a value, and json.loads *)

\* the members or items, separated by commas
RECURSIVE JoinComma(_)
JoinComma(chunks) ==
    IF chunks = <<>> THEN <<>>
    ELSE IF Len(chunks) = 1 THEN chunks[1]
    ELSE chunks[1] \o <<",">> \o JoinComma(Tail(chunks))

\* the JSON text of a scalar
JsonScalar(v) ==
    CASE v.t = "null" -> <<"null">>
      [] v.t = "str"  -> <<QUOTE>> \o v.s \o <<QUOTE>>
      [] v.t = "num"  -> <<NumTok(v.n)>>
      [] v.t = "bool" -> <<IF v.b THEN "true" ELSE "false">>
      [] v.t = "dict" -> <<LBRACE, RBRACE>>

JsonValue(v) ==
    IF v.t = "list"
    THEN <<"[">> \o JoinComma([i \in 1..Len(v.items) |-> JsonScalar(v.items[i])]) \o <<"]">>
    ELSE JsonScalar(v)

\* the JSON text a model writes for the object d, its keys in schema order
JsonText(d) ==
    LET keys == SelectSeq(EXPECTED_KEYS \o <<EXTRA_KEY>>, LAMBDA k : k \in DOMAIN d)
    IN  <<LBRACE>>
        \o JoinComma([i \in 1..Len(keys) |->
                        <<QUOTE, keys[i], QUOTE, ":">> \o JsonValue(d[keys[i]])])
        \o <<RBRACE>>

\* position i of a JSON text lies inside a string
InString(txt, i) == Cardinality({j \in 1..i - 1 : txt[j] = QUOTE}) % 2 = 1

\* a JSON text without the whitespace between its tokens (kept inside strings)
Compact(txt) ==
    LET drop == {i \in 1..Len(txt) : txt[i] = SP /\ ~InString(txt, i)}
        kept(i) == i - Cardinality({j \in drop : j < i})
    IN  [n \in 1..Len(txt) - Cardinality(drop) |->
            txt[CHOOSE i \in 1..Len(txt) : i \notin drop /\ kept(i) = n]]

\* json.loads(candidate) for the objects a model of this development writes:
\* the object whose JSON text the candidate is, or a JSONDecodeError
json_loads(json_candidate, known) ==
    LET compact == Compact(json_candidate)
        hits == {d \in known : JsonText(d) = compact}
    IN  IF hits = {} THEN [ok |-> FALSE, e |-> "JSONDecodeError"]
        ELSE [ok |-> TRUE, value |-> CHOOSE d \in hits : TRUE]

-----------------------------------------------------------------------------
(* Specification of _extract_json_candidate: a JSON object is embedded in   *)
(* prose and the function is applied to the text.                           *)

MaxPre == 2    \* tokens of prose before the object
MaxPost == 2   \* tokens of prose after the object

ProseTokens == {LBRACE, RBRACE, SP, FENCE, "json", "text"}

ProseUpTo(n) == UNION {[1..k -> ProseTokens] : k \in 0..n}

\* objects a model may embed: empty, the usual shape, braces inside string
\* values (unbalanced and balanced), a nested object
EmbeddedObjects ==
    { MkDict(Absent, Absent, Absent, Absent, Absent, Absent, Absent, Absent),
      MkDict(Lit("ELIGIBLE"), Absent, Absent, Absent, Absent, Absent,
             JList(<<Lit("eGFR")>>), Absent),
      MkDict(Lit("ELIGIBLE"), JStr(<<"see", SP, RBRACE>>), Absent, Absent, Absent,
             Absent, Absent, Absent),
      MkDict(Lit("INELIGIBLE"), JStr(<<LBRACE, SP, "open">>), Absent, Absent, Absent,
             Absent, Absent, Absent),
      MkDict(Lit("UNCERTAIN"), JStr(<<LBRACE, "x", RBRACE>>), Absent, Absent, Absent,
             Absent, Absent, Absent),
      MkDict(Lit("UNCERTAIN"), Lit("ok"), Absent, Absent, Absent, Absent, Absent,
             JEmptyObj) }

InitExtract ==
    /\ pc = "raw"
    /\ \E pre \in ProseUpTo(MaxPre), d \in EmbeddedObjects, post \in ProseUpTo(MaxPost) :
          /\ parts = [pre |-> pre, obj |-> d, post |-> post]
          /\ text = JStr(pre \o JsonText(d) \o post)
    /\ candidate = None
    /\ draft = None /\ fixed = None /\ warnings = None
    /\ refixed = None /\ rewarnings = None
    /\ call = None /\ outcome = None
    /\ NoApp

\* json_candidate = _extract_json_candidate(text_resp)
Extract ==
    /\ pc = "raw"
    /\ candidate' = _extract_json_candidate(text)
    /\ pc' = "extracted"
    /\ UNCHANGED <<draft, fixed, warnings, refixed, rewarnings, call, outcome,
                   text, parts>>
    /\ UNCHANGED appvars

NextExtract == Extract

SpecExtract == InitExtract /\ [][NextExtract]_vars

-----------------------------------------------------------------------------
(* screen_patient.  The collaborators (the model client and the json        *)
(* module) are inputs of the call: whether genai.GenerativeModel raises,    *)
(* whether generate_content raises or what text it answers, and whether     *)
(* every value of the patient mapping is JSON serializable.                 *)

\* a Python object json.dumps cannot serialize (a timestamp, a numpy scalar)
Opaque == [t |-> "object"]

\* patient_data: None stands for any argument that is not a dict
PatientInputs ==
    { JNull,
      [t |-> "mapping", d |-> <<>>],
      [t |-> "mapping", d |-> [age |-> JNum(54), gender |-> Lit("F")]],
      [t |-> "mapping", d |-> [age |-> JNum(54), enrolled |-> Opaque]] }

TrialTexts == { JStr(<<>>), JStr(<<"Age", SP, ">=", SP, "18">>) }

\* json.dumps(patient_data, indent=2) raises TypeError
DumpsRaises(patient_data) ==
    \E k \in DOMAIN patient_data.d : patient_data.d[k] = Opaque

\* the objects the model answers in the screening specification
AnsweredObjects ==
    EmbeddedObjects \cup
    { MkDict(Lit("MAYBE"), Lit("ok"), Absent, Absent, Absent, Absent, Absent, Absent),
      MkDict(JNum(1), Absent, Absent, Absent, Absent, Absent, Absent, Absent),
      MkDict(JNull, JNull, JNull, JNull, JNull, JNull, JNull, Absent),
      MkDict(Lit("INELIG"), Lit("ok"), JList(<<>>), JList(<<>>), JList(<<>>),
             JList(<<>>), JList(<<>>), Absent),
      MkDict(JStr(<<SP, "eligible", SP>>), Lit("ok"), JList(<<Lit("A")>>),
             JList(<<>>), JList(<<Lit("X")>>), JList(<<>>), JList(<<Lit("Y")>>),
             Absent),
      MkDict(Lit("ELIGIBLE"), Lit("ok"), JList(<<Lit("A")>>), JList(<<>>),
             JList(<<>>), JList(<<Lit("Z")>>), JList(<<>>), JNum(9)) }

AnswerPrefixes == { <<>>, <<"Here", SP>>, <<FENCE, "json", SP>>, <<LBRACE, SP>> }
AnswerSuffixes == { <<>>, <<SP, FENCE>>, <<SP, RBRACE>> }

\* a prose answer of 101 characters without a brace
LongProse == [i \in 1..101 |-> IF i = 1 THEN "S" ELSE "x"]

\* raw texts of a response: None, empty, blank, prose without an object (short
\* and longer than 100 characters), an unclosed brace, a JSON array, and an
\* object inside prose
ResponseTexts ==
    { JNull, JStr(<<>>), JStr(<<SP>>), JStr(<<"I", SP, "cannot", SP, "help">>),
      JStr(LongProse),
      JStr(<<LBRACE, QUOTE, "decision", QUOTE>>), JStr(<<"[", "]">>) }
    \cup { JStr(pre \o JsonText(d) \o post) :
              pre \in AnswerPrefixes, d \in AnsweredObjects, post \in AnswerSuffixes }

\* what model.generate_content (or reading response.text) does
GenerateOutcomes ==
    { [raised |-> TRUE, e |-> m] : m \in {"429 quota exceeded", ""} }
    \cup { [raised |-> FALSE, text |-> t] : t \in ResponseTexts }

\* what genai.GenerativeModel(model_name) does
InitOutcomes == { [raised |-> FALSE], [raised |-> TRUE, e |-> "no API key"] }

RAW_PREFIX == 100

\* only the first three characters
RawPrefix_Three(txt) == SubSeq(txt, 1, IF Len(txt) < 3 THEN Len(txt) ELSE 3)

\* text_resp[:100], a token standing for a character
RawPrefix(txt) == SubSeq(txt, 1, IF Len(txt) < RAW_PREFIX THEN Len(txt) ELSE RAW_PREFIX)

\* a failure record with another decision word
ErrorRecord_Failed(reason, missing) ==
    [decision |-> Lit("FAILED"), reason |-> JStr(reason), missing_info |-> JList(missing)]

\* the three-key record of the failure paths
ErrorRecord(reason, missing) ==
    [decision |-> Lit("ERROR"), reason |-> JStr(reason), missing_info |-> JList(missing)]

\* str(e): the message of an exception, the empty string when it has none
Msg(e) == IF e = "" THEN <<>> ELSE <<e>>

Returns(rec) == [raised |-> FALSE, ret |-> rec]
Raises(e) == [raised |-> TRUE, e |-> e]

\* lines 201-240: the guarded part of screen_patient
ScreenGuarded(generate) ==
    IF generate.raised THEN Returns(ErrorRecord(Msg(generate.e), <<>>))
    ELSE LET text_resp == IF Truthy(generate.text) THEN generate.text ELSE JStr(<<>>)
             json_candidate == _extract_json_candidate(text_resp)
         IN  IF json_candidate = <<>>
             THEN Returns(ErrorRecord(<<"No JSON found in model response. Raw: ">>
                                      \o RawPrefix(text_resp.s), <<>>))
             ELSE LET parsed == json_loads(json_candidate, AnsweredObjects)
                  IN  IF ~parsed.ok
                      THEN Returns(ErrorRecord(<<"Failed to parse JSON: ">> \o Msg(parsed.e), <<>>))
                      \* json.loads of a text that starts with { gives a dict or
                      \* raises, so "Parsed JSON is not an object." is never returned
                      ELSE Returns(_validate_and_fix_result(parsed.value).result)

screen_patient(patient_data, trial_text, init, generate) ==
    IF patient_data.t # "mapping" \/ patient_data.d = <<>>
    THEN Returns(ErrorRecord(<<"Invalid patient_data dict.">>, <<Lit("patient_data")>>))
    ELSE IF init.raised
    THEN Returns(ErrorRecord(<<"Model init failed: ">> \o Msg(init.e), <<>>))
    \* lines 170-199: the prompt is built outside both try blocks
    ELSE IF DumpsRaises(patient_data)
    THEN Raises("TypeError")
    ELSE ScreenGuarded(generate)

InitScreen ==
    /\ pc = "calling"
    /\ \E p \in PatientInputs, tt \in TrialTexts, i \in InitOutcomes,
          g \in GenerateOutcomes :
          call = [patient_data |-> p, trial_text |-> tt, init |-> i, generate |-> g]
    /\ outcome = None
    /\ draft = None /\ fixed = None /\ warnings = None
    /\ refixed = None /\ rewarnings = None
    /\ text = None /\ parts = None /\ candidate = None
    /\ NoApp

\* result = screen_patient(patient_data, trial_text)
ScreenPatient ==
    /\ pc = "calling"
    /\ outcome' = screen_patient(call.patient_data, call.trial_text, call.init,
                                 call.generate)
    /\ pc' = "returned"
    /\ UNCHANGED <<draft, fixed, warnings, refixed, rewarnings, call,
                   text, parts, candidate>>
    /\ UNCHANGED appvars

NextScreen == ScreenPatient

SpecScreen == InitScreen /\ [][NextScreen]_vars

-----------------------------------------------------------------------------
(* src/app.py: the batch loop of tab 3, the auto-run of tab 4 and the merge *)
(* into the result store.  A row of a patient table carries, besides its    *)
(* cells, what the model service does when that row is screened.  The       *)
(* store is the CSV file: its cells are texts, and a column gets its type   *)
(* when the file is read.                                                   *)

MaxRows == 2   \* rows of a patient table
MaxRuns == 2   \* batch runs started in one behaviour

\* names of protocols; a name written in digits only is a number when the
\* trial_name column is read back by pd.read_csv
TrialNames == {"T1", "7"}
NumericNames == {"7"}

\* n_name, the Protocol ID typed into the form of tab 4
ProtocolInputs == {"T1", "T 1", "7", "!"}

\* line 393: the characters of n_name that are alphanumeric, _ or -
Safe(n_name) ==
    CASE n_name = "T 1" -> "T1"
      [] n_name = "!"   -> ""
      [] OTHER          -> n_name

\* the criteria text of a protocol
BatchText == JStr(<<"Age", SP, ">=", SP, "18">>)

\* rows of a patient table: a patient the model answers with an object, a
\* patient the model answers in prose, and a row with a cell json.dumps
\* cannot serialize
RowInputs ==
    { [cells |-> [patient_id |-> Lit("P1"), age |-> JNum(54)],
       init |-> [raised |-> FALSE],
       generate |-> [raised |-> FALSE,
                     text |-> JStr(JsonText(
                         MkDict(Lit("ELIGIBLE"), Absent, Absent, Absent, Absent,
                                Absent, JList(<<Lit("eGFR")>>), Absent)))]],
      [cells |-> [patient_id |-> Lit("P2"), age |-> JNum(61)],
       init |-> [raised |-> FALSE],
       generate |-> [raised |-> FALSE,
                     text |-> JStr(<<"I", SP, "cannot", SP, "help">>)]],
      [cells |-> [patient_id |-> Lit("P1"), enrolled |-> Opaque],
       init |-> [raised |-> FALSE],
       generate |-> [raised |-> FALSE, text |-> JStr(<<>>)]] }

\* df_upload, df_pats: the tables of at most MaxRows rows
Tables == UNION {[1..k -> RowInputs] : k \in 0..MaxRows}

\* row.to_dict()
RowDict(row) == [t |-> "mapping", d |-> row.cells]

\* lines 346-354: the record tab 3 appends to results_batch
BatchRecord(row, trial, res) ==
    [patient_id |-> JStr(PyStr(DictGetOr(row.cells, "patient_id", JStr(<<>>)))),
     trial_name |-> trial,
     decision |-> DictGetOr(res, "decision", Lit("ERROR")),
     reason |-> DictGetOr(res, "reason", JStr(<<>>)),
     missing_info |-> DictGetOr(res, "missing_info", JStr(<<>>)),
     inclusion_criteria_not_met |->
         JStr(PyStr(DictGetOr(res, "inclusion_criteria_not_met", JList(<<>>)))),
     exclusion_criteria_met |->
         JStr(PyStr(DictGetOr(res, "exclusion_criteria_met", JList(<<>>))))]

\* lines 409-417: the record tab 4 appends to res_auto
AutoRecord(row, trial, res) ==
    [patient_id |-> JStr(PyStr(DictGet(row.cells, "patient_id"))),
     trial_name |-> trial,
     decision |-> DictGet(res, "decision"),
     reason |-> DictGet(res, "reason"),
     missing_info |-> DictGet(res, "missing_info"),
     inclusion_criteria_not_met |->
         JStr(PyStr(DictGetOr(res, "inclusion_criteria_not_met", JList(<<>>)))),
     exclusion_criteria_met |->
         JStr(PyStr(DictGetOr(res, "exclusion_criteria_met", JList(<<>>))))]

\* the text to_csv writes for a cell: nothing for None, str(x) otherwise
CsvCell(v) == IF v.t = "null" THEN <<>> ELSE PyStr(v)

\* the line to_csv writes for a record
CsvRow(rec) ==
    [k \in DOMAIN rec |-> IF k = "trial_name" THEN rec[k] ELSE CsvCell(rec[k])]

\* the lines to_csv writes for a list of records
CsvRows(recs) == [i \in 1..Len(recs) |-> CsvRow(recs[i])]

\* the file screening_results.csv: absent, written from a frame without
\* columns (pd.read_csv raises on it), or a header and rows
NoFile == [file |-> "none"]
Blank == [file |-> "blank"]
Table(rows) == [file |-> "table", rows |-> rows]

\* pd.read_csv gives trial_name a numeric type when every cell of the column
\* is written in digits
NumericColumn(rows) ==
    rows # <<>> /\ \A i \in 1..Len(rows) : rows[i].trial_name \in NumericNames

\* old[old['trial_name'] != trial]: a number is never equal to the str trial
OtherTrials(rows, trial) ==
    IF NumericColumn(rows) THEN rows
    ELSE SelectSeq(rows, LAMBDA r : r.trial_name # trial)

\* lines 360-371 and 421-428: what is written back to the file
Combined(old, results, trial) ==
    IF old.file = "table"
    THEN Table(OtherTrials(old.rows, trial) \o CsvRows(results))
    ELSE IF results = <<>> THEN Blank ELSE Table(CsvRows(results))

InitApp ==
    /\ pc = "idle"
    /\ store = NoFile
    /\ run = None
    /\ nruns = 0
    /\ draft = None /\ fixed = None /\ warnings = None
    /\ refixed = None /\ rewarnings = None
    /\ call = None /\ outcome = None
    /\ text = None /\ parts = None /\ candidate = None

\* lines 89-91: every script run reads the file before any tab is drawn
AppLoads == store.file # "blank"

\* tab 3, lines 324-341: a table is uploaded and Start Batch Screening pressed
StartBatch ==
    /\ pc = "idle" /\ AppLoads /\ nruns < MaxRuns
    /\ \E trial \in TrialNames, table \in Tables :
          run' = [tab |-> "tab3", trial |-> trial, table |-> table, idx |-> 0,
                  results |-> <<>>, failed |-> 0, old |-> None]
    /\ pc' = "loop"
    /\ nruns' = nruns + 1
    /\ UNCHANGED store
    /\ UNCHANGED corevars

\* tab 4, lines 392-405: a protocol is saved and the patient file is screened
StartAutoRun ==
    /\ pc = "idle" /\ AppLoads /\ nruns < MaxRuns
    /\ \E n_name \in ProtocolInputs, table \in Tables :
          /\ Safe(n_name) # ""
          /\ run' = [tab |-> "tab4", trial |-> Safe(n_name), table |-> table,
                     idx |-> 0, results |-> <<>>, failed |-> None, old |-> None]
    /\ pc' = "loop"
    /\ nruns' = nruns + 1
    /\ UNCHANGED store
    /\ UNCHANGED corevars

\* lines 343-358 and 406-419: one turn of the loop over the rows
LoopStep ==
    /\ pc = "loop" /\ run.idx < Len(run.table)
    /\ LET row == run.table[run.idx + 1]
           res == screen_patient(RowDict(row), BatchText, row.init, row.generate)
       IN  run' =
             IF res.raised
             THEN IF run.tab = "tab3"
                  THEN [run EXCEPT !.idx = @ + 1, !.failed = @ + 1]   \* except: failed += 1
                  ELSE [run EXCEPT !.idx = @ + 1]                     \* except: pass
             ELSE [run EXCEPT !.idx = @ + 1,
                              !.results = Append(@,
                                  IF run.tab = "tab3"
                                  THEN BatchRecord(row, run.trial, res.ret)
                                  ELSE AutoRecord(row, run.trial, res.ret))]
    /\ UNCHANGED <<pc, store, nruns>>
    /\ UNCHANGED corevars

\* lines 360-371 and 421-428: after the loop the results are merged and saved
MergeAndSave ==
    /\ pc = "loop" /\ run.idx = Len(run.table)
    /\ run' = [run EXCEPT !.old = store]
    /\ store' = Combined(store, run.results, run.trial)
    /\ pc' = "saved"
    /\ UNCHANGED nruns
    /\ UNCHANGED corevars

\* the script run ends (st.rerun in tab 4) and the page is drawn again
Rerun ==
    /\ pc = "saved"
    /\ pc' = "idle"
    /\ run' = None
    /\ UNCHANGED <<store, nruns>>
    /\ UNCHANGED corevars

NextApp == StartBatch \/ StartAutoRun \/ LoopStep \/ MergeAndSave \/ Rerun

SpecApp == InitApp /\ [][NextApp]_vars

-----------------------------------------------------------------------------
(* Every way a decision record is produced: a parsed model output is       *)
(* validated, or screen_patient is called.                                  *)

Init == InitValidate \/ InitScreen

Next == Validate \/ ScreenPatient

Spec == Init /\ [][Next]_vars

-----------------------------------------------------------------------------
(* Properties *)

Tokens(q) == {q[i] : i \in 1..Len(q)}
Decisions == {Lit(d) : d \in ALLOWED_DECISIONS}
ExpectedKeySet == Tokens(EXPECTED_KEYS)
Validated == pc \in {"fixed", "refixed"}
NonEmpty(r, k) == Len(r[k].items) > 0

\* C1: a record returned by _validate_and_fix_result never has decision
\* ELIGIBLE together with a non-empty exclusion_criteria_met, a non-empty
\* inclusion_criteria_not_met or a non-empty missing_info.
C1_EligibleHasNoContraryEvidence ==
    Validated /\ fixed["decision"] = Lit("ELIGIBLE")
        => /\ ~NonEmpty(fixed, "exclusion_criteria_met")
           /\ ~NonEmpty(fixed, "inclusion_criteria_not_met")
           /\ ~NonEmpty(fixed, "missing_info")

\* C1 witness: a draft that says ELIGIBLE and reports missing information was
\* validated and did not stay ELIGIBLE.
C1_Witness ==
    /\ pc = "fixed"
    /\ DictGet(draft, "decision") = Lit("ELIGIBLE")
    /\ NonEmpty(fixed, "missing_info")
    /\ fixed["decision"] = Lit("UNCERTAIN")

\* C2: the decision of every record returned by _validate_and_fix_result and
\* by screen_patient is one of ELIGIBLE, INELIGIBLE, UNCERTAIN, ERROR.
C2_DecisionIsCanonical ==
    /\ Validated => fixed["decision"] \in Decisions
    /\ pc = "refixed" => refixed["decision"] \in Decisions
    /\ pc = "returned" /\ ~outcome.raised => outcome.ret["decision"] \in Decisions

\* C2 witness: a model output whose decision is an unrecognized string went
\* through screen_patient and came back as ERROR.
C2_Witness ==
    /\ pc = "returned"
    /\ ~call.generate.raised
    /\ call.generate.text =
          JStr(JsonText(MkDict(Lit("MAYBE"), Lit("ok"), Absent, Absent, Absent,
                               Absent, Absent, Absent)))
    /\ ~outcome.raised
    /\ outcome.ret["decision"] = Lit("ERROR")
    /\ "inclusion_criteria_met" \in DOMAIN outcome.ret

\* the call was given a non-empty patient mapping
ValidPatient == call.patient_data.t = "mapping" /\ call.patient_data.d # <<>>

\* C3: for a non-empty patient mapping screen_patient never raises: whichever
\* step fails, it returns a record with decision ERROR, and for a failed model
\* call the reason carries the failure message.
C3_NeverRaises ==
    pc = "returned" /\ ValidPatient
        => /\ ~outcome.raised
           /\ call.init.raised \/ call.generate.raised
                 => outcome.ret["decision"] = Lit("ERROR")
           /\ ~call.init.raised /\ call.generate.raised
                 => outcome.ret["reason"] = JStr(Msg(call.generate.e))

\* the decision after normalization, before the override rules
NormalizedDecision == _normalize_decision(DictGet(draft, "decision"))

\* C4: for a draft whose normalized decision is ELIGIBLE, a non-empty
\* exclusion_criteria_met or inclusion_criteria_not_met gives INELIGIBLE
\* whatever missing_info holds, and the result is UNCERTAIN exactly when
\* missing_info is non-empty and both other lists are empty.
C4_OverridePrecedence ==
    pc = "fixed" /\ NormalizedDecision = Lit("ELIGIBLE")
        => /\ NonEmpty(fixed, "exclusion_criteria_met")
                 \/ NonEmpty(fixed, "inclusion_criteria_not_met")
                 => fixed["decision"] = Lit("INELIGIBLE")
           /\ fixed["decision"] = Lit("UNCERTAIN")
                 <=> /\ NonEmpty(fixed, "missing_info")
                     /\ ~NonEmpty(fixed, "exclusion_criteria_met")
                     /\ ~NonEmpty(fixed, "inclusion_criteria_not_met")

\* C4 witness: ELIGIBLE with a met exclusion and missing information came out
\* INELIGIBLE.
C4_Witness ==
    /\ pc = "fixed"
    /\ NormalizedDecision = Lit("ELIGIBLE")
    /\ NonEmpty(fixed, "exclusion_criteria_met")
    /\ NonEmpty(fixed, "missing_info")
    /\ fixed["decision"] = Lit("INELIGIBLE")

\* C5: applying _validate_and_fix_result to the record it returned gives the
\* same record again (decision, reason, lists) and no warnings.
C5_Idempotent ==
    pc = "refixed" => refixed = fixed /\ rewarnings = <<>>

\* C5 witness: a record whose first validation downgraded the decision and
\* appended a note was validated a second time.
C5_Witness ==
    /\ pc = "refixed"
    /\ WARN_RULE3 \in Tokens(warnings)
    /\ NOTE_PREFIX \in Tokens(fixed["reason"].s)

\* the normalization table of the claim
ClaimedDecision(v) ==
    IF v.t # "str" THEN "ERROR"
    ELSE LET d == Upper(Strip(v.s))
         IN  CASE d = <<"ELIGIBLE">> -> "ELIGIBLE"
               [] d \in {<<"INELIGIBLE">>, <<"NOT_ELIGIBLE">>} -> "INELIGIBLE"
               [] d \in {<<"UNCERTAIN">>, <<"UNKNOWN">>, <<"UNSURE">>} -> "UNCERTAIN"
               [] OTHER -> "ERROR"

\* C6: after trimming and upper-casing, ELIGIBLE gives ELIGIBLE, INELIGIBLE
\* and NOT_ELIGIBLE give INELIGIBLE, UNCERTAIN, UNKNOWN and UNSURE give
\* UNCERTAIN, and every other value gives ERROR (seen on the records whose
\* three evidence lists are empty, where no override rule changes the decision).
C6_NormalizationTable ==
    /\ pc = "fixed"
    /\ ~NonEmpty(fixed, "exclusion_criteria_met")
    /\ ~NonEmpty(fixed, "inclusion_criteria_not_met")
    /\ ~NonEmpty(fixed, "missing_info")
    => fixed["decision"] = Lit(ClaimedDecision(DictGet(draft, "decision")))

RuleWarnings == {WARN_RULE1, WARN_RULE2, WARN_RULE3}

\* C7: whenever an override rule fires, the reason of the returned record
\* contains the audit note of that rule, and the note cites at most two entries.
C7_AuditNoteOfFiredRule ==
    pc = "fixed"
        => /\ \A w \in RuleWarnings :
                 w \in Tokens(warnings) => w \in Tokens(fixed["reason"].s)
           /\ Cardinality({i \in 1..Len(fixed["reason"].s) :
                              fixed["reason"].s[i] \in Tokens(warnings)}) <= NOTE_LIMIT

\* C8 as stated: the returned record has exactly the seven expected fields.
C8_ExactlySevenFields ==
    Validated => DOMAIN fixed = ExpectedKeySet

\* C8 amended: the returned record has all seven expected fields, a missing
\* list key as the empty sequence, a missing decision as ERROR and a missing
\* reason as a non-empty generated text; every other key of the model output
\* is still in the record with its value unchanged.
C8_SevenFieldsAndOthersKept ==
    Validated
        => /\ DOMAIN fixed = DOMAIN draft \cup ExpectedKeySet
           /\ \A k \in LIST_KEYS \ DOMAIN draft : fixed[k] = JList(<<>>)
           /\ "decision" \notin DOMAIN draft => fixed["decision"] = Lit("ERROR")
           /\ "reason" \notin DOMAIN draft
                 => fixed["reason"].t = "str" /\ fixed["reason"].s # <<>>
           /\ \A k \in DOMAIN draft \ ExpectedKeySet : fixed[k] = draft[k]

\* C8 witness: a model output with a key outside the schema and without
\* missing_info and reason was validated.
C8_Witness ==
    /\ pc = "fixed"
    /\ EXTRA_KEY \in DOMAIN draft
    /\ "missing_info" \notin DOMAIN draft
    /\ "reason" \notin DOMAIN draft
    /\ fixed["missing_info"] = JList(<<>>)

\* the call ended on one of the failure paths of screen_patient
FailurePath ==
    \/ ~ValidPatient
    \/ call.init.raised
    \/ call.generate.raised
    \/ LET c == _extract_json_candidate(
                   IF Truthy(call.generate.text) THEN call.generate.text ELSE JStr(<<>>))
       IN  c = <<>> \/ ~json_loads(c, AnsweredObjects).ok

\* C9: every record screen_patient returns on a failure path has decision
\* ERROR, a string reason and all five list fields present as sequences.
C9_FailureRecordWellFormed ==
    pc = "returned" /\ ~outcome.raised /\ FailurePath
        => /\ outcome.ret["decision"] = Lit("ERROR")
           /\ outcome.ret["reason"].t = "str"
           /\ \A k \in LIST_KEYS :
                 k \in DOMAIN outcome.ret /\ outcome.ret[k].t = "list"

NoBraceInStrings(d) ==
    \A k \in DOMAIN d : d[k].t = "str" => Tokens(d[k].s) \cap {LBRACE, RBRACE} = {}

StoreRows(st) == IF st.file = "table" THEN st.rows ELSE <<>>

\* the (patient_id, trial_name) key of a record of the store
Key(r) == <<r.patient_id, r.trial_name>>

\* the records of the store with the key k
WithKey(rows, k) == SelectSeq(rows, LAMBDA r : Key(r) = k)

\* C11: when the results of a batch are written, every record of the old
\* store whose (patient_id, trial_name) key is not a key of the batch is in
\* the new store, the records under a key of the batch are exactly the new
\* ones, and every new record is in the new store.
C11_MergeReplacesBatchKeysOnly ==
    pc = "saved"
        => LET old == StoreRows(run.old)
               new == CsvRows(run.results)
               now == StoreRows(store)
               newkeys == {Key(new[i]) : i \in 1..Len(new)}
           IN  /\ \A i \in 1..Len(old) :
                     Key(old[i]) \notin newkeys => old[i] \in Tokens(now)
               /\ \A k \in newkeys : WithKey(now, k) = WithKey(new, k)
               /\ \A i \in 1..Len(new) : new[i] \in Tokens(now)

\* the failures the loop has counted: tab 4 has no counter
CountedFailures == IF run.tab = "tab3" THEN run.failed ELSE 0

\* C12: in both batch loops the rows are taken one at a time in order, each
\* processed row has added one record or has been counted as a failure, and
\* after the loop the records and the counted failures add up to the rows.
C12_RowsRecordedOrCounted ==
    pc = "loop"
        => /\ run.idx \in 0..Len(run.table)
           /\ Len(run.results) + CountedFailures = run.idx
           /\ run.idx = Len(run.table)
                 => Len(run.results) + CountedFailures = Len(run.table)

\* C17: the store never holds two records with the same (patient_id,
\* trial_name) pair.
C17_OneRecordPerPair ==
    LET rows == StoreRows(store)
    IN  \A i, j \in 1..Len(rows) : i # j => Key(rows[i]) # Key(rows[j])

\* positions of the triple backticks of a text
Fences(txt) == {i \in 1..Len(txt) : txt[i] = FENCE}

\* the text holds a fenced block: an opening and a closing fence
HasFencedBlock(txt) == Cardinality(Fences(txt)) >= 2

\* the content between the first two fences, without a json tag, trimmed
FirstBlockInner(txt) ==
    LET f1 == CHOOSE i \in Fences(txt) : \A x \in Fences(txt) : i <= x
        rest == Fences(txt) \ {f1}
        f2 == CHOOSE i \in rest : \A x \in rest : i <= x
        b == IF f1 + 1 < f2 /\ txt[f1 + 1] \in JSON_TAGS THEN f1 + 2 ELSE f1 + 1
    IN  Strip(SubSeq(txt, b, f2 - 1))

\* the substring from the first { to the first } at which as many } as { have
\* been read, trimmed; empty when there is no such substring
BraceSubstring(txt) ==
    LET opens == {i \in 1..Len(txt) : txt[i] = LBRACE}
    IN  IF opens = {} THEN <<>>
        ELSE LET start == CHOOSE i \in opens : \A x \in opens : i <= x
                 balanced(e) ==
                     Cardinality({j \in start..e : txt[j] = LBRACE})
                         = Cardinality({j \in start..e : txt[j] = RBRACE})
                 ends == {e \in start..Len(txt) : txt[e] = RBRACE /\ balanced(e)}
             IN  IF ends = {} THEN <<>>
                 ELSE Strip(SubSeq(txt, start,
                                   CHOOSE e \in ends : \A x \in ends : e <= x))

\* C13 as stated: when the text holds a fenced block the extractor returns the
\* trimmed inner content of that block, and otherwise the substring from the
\* first { to where the brace depth is back at zero.
C13_FencedBlockFirst ==
    pc = "extracted"
        => candidate = IF HasFencedBlock(text.s) THEN FirstBlockInner(text.s)
                       ELSE BraceSubstring(text.s)

\* C13 amended: when the inner content of the first fenced block, trimmed,
\* starts with { and ends with }, the extractor returns that content, also
\* when a { stands in the prose before the fence; when the text holds no
\* fenced block it returns the substring from the first { to where the brace
\* depth is back at zero.
C13_FencedObjectFirst ==
    pc = "extracted"
        => /\ HasFencedBlock(text.s)
                 => LET inner == FirstBlockInner(text.s)
                    IN  inner # <<>> /\ Head(inner) = LBRACE
                              /\ inner[Len(inner)] = RBRACE
                          => candidate = inner
           /\ ~HasFencedBlock(text.s) => candidate = BraceSubstring(text.s)

\* C13 witness: an object inside a fenced block, with a { in the prose before
\* the fence, was extracted as the content of the block.
C13_Witness ==
    /\ pc = "extracted"
    /\ parts.pre = <<LBRACE, FENCE>>
    /\ parts.post = <<SP, FENCE>>
    /\ "missing_info" \in DOMAIN parts.obj
    /\ candidate = JsonText(parts.obj)

\* p occurs in s as a contiguous part
IsInfix(p, s) ==
    \E k \in 0..Len(s) - Len(p) : SubSeq(s, k + 1, k + Len(p)) = p

\* the raw text of the claim: null or empty, without a {, or with a first {
\* that is never closed and no fenced block
NoObjectText(v) ==
    \/ ~Truthy(v)
    \/ LBRACE \notin Tokens(v.s)
    \/ ~HasFencedBlock(v.s) /\ BraceSubstring(v.s) = <<>>

\* the model was called and answered with a raw text
Answered ==
    /\ ValidPatient
    /\ ~call.init.raised
    /\ ~DumpsRaises(call.patient_data)
    /\ ~call.generate.raised

\* C14: for a raw text that is null or empty, holds no {, or never closes its
\* first { (and has no fenced block), _extract_json_candidate returns the
\* empty candidate and screen_patient returns, without raising, a record with
\* decision ERROR whose reason contains the first 100 characters of the raw
\* text and no more of it.
C14_NoCandidateGivesError ==
    pc = "returned" /\ Answered /\ NoObjectText(call.generate.text)
        => LET raw == IF Truthy(call.generate.text) THEN call.generate.text.s ELSE <<>>
               first == SubSeq(raw, 1, IF Len(raw) < 100 THEN Len(raw) ELSE 100)
           IN  /\ _extract_json_candidate(call.generate.text) = <<>>
               /\ ~outcome.raised
               /\ outcome.ret["decision"] = Lit("ERROR")
               /\ outcome.ret["reason"].t = "str"
               /\ IsInfix(first, outcome.ret["reason"].s)
               /\ Len(raw) > 100 => ~IsInfix(raw, outcome.ret["reason"].s)

\* C14 witness: the model answered more than 100 characters of prose without
\* a brace and the call returned ERROR with the first 100 of them.
C14_Witness ==
    /\ pc = "returned"
    /\ Answered
    /\ call.generate.text = JStr(LongProse)
    /\ ~outcome.raised
    /\ outcome.ret["decision"] = Lit("ERROR")
    /\ outcome.ret["reason"].s =
          <<"No JSON found in model response. Raw: ">> \o SubSeq(LongProse, 1, 100)

\* the sequence the claim gives a list field for the value v of the model output
ClaimedList(v) ==
    IF v = Absent \/ v.t = "null" THEN <<>>
    ELSE IF v.t = "list"
    THEN LET trimmed == [i \in 1..Len(v.items) |-> JStr(Strip(PyStr(v.items[i])))]
         IN  SelectSeq(trimmed, LAMBDA x : x.s # <<>>)
    ELSE LET s == Strip(PyStr(v))
         IN  IF s = <<>> THEN <<>> ELSE <<JStr(s)>>

\* a non-empty string without whitespace at its ends
TrimmedString(x) ==
    x.t = "str" /\ x.s # <<>> /\ Head(x.s) # SP /\ x.s[Len(x.s)] # SP

\* C15: each of the five list fields of the returned record is a sequence of
\* non-empty trimmed strings: empty for null or an absent key; for a sequence
\* its elements as trimmed strings, in order, duplicates kept, blank ones
\* dropped; for a scalar one element, or none when it is blank.
C15_ListCoercion ==
    Validated
        => \A k \in LIST_KEYS :
              /\ fixed[k].t = "list"
              /\ fixed[k].items = ClaimedList(DictGetOr(draft, k, Absent))
              /\ \A i \in 1..Len(fixed[k].items) : TrimmedString(fixed[k].items[i])

\* C15 witness: a list with padded, empty, duplicate, numeric and null
\* elements was coerced.
C15_Witness ==
    /\ pc = "fixed"
    /\ DictGet(draft, "inclusion_criteria_met") =
          JList(<<JStr(<<SP, "A", SP>>), JStr(<<>>), Lit("B"), Lit("A"), JNum(5), JNull>>)
    /\ fixed["inclusion_criteria_met"] =
          JList(<<Lit("A"), Lit("B"), Lit("A"), Lit("5"), Lit("None")>>)

\* one of the three evidence lists of the returned record is non-empty
ContraryEvidence ==
    \/ NonEmpty(fixed, "exclusion_criteria_met")
    \/ NonEmpty(fixed, "inclusion_criteria_not_met")
    \/ NonEmpty(fixed, "missing_info")

\* the override rules that fired, by their warnings
FiredRules == {i \in 1..Len(warnings) : warnings[i] \in RuleWarnings}

\* C16: the final decision differs from the normalized decision only when the
\* normalized decision is ELIGIBLE and one of exclusion_criteria_met,
\* inclusion_criteria_not_met, missing_info is non-empty; INELIGIBLE,
\* UNCERTAIN and ERROR are returned unchanged, ELIGIBLE without such evidence
\* stays ELIGIBLE, and at most one rule fires.
C16_OnlyEligibleIsDowngraded ==
    pc = "fixed"
        => /\ fixed["decision"] # NormalizedDecision
                 => NormalizedDecision = Lit("ELIGIBLE") /\ ContraryEvidence
           /\ NormalizedDecision # Lit("ELIGIBLE")
                 => fixed["decision"] = NormalizedDecision /\ FiredRules = {}
           /\ NormalizedDecision = Lit("ELIGIBLE") /\ ~ContraryEvidence
                 => fixed["decision"] = Lit("ELIGIBLE") /\ FiredRules = {}
           /\ Cardinality(FiredRules) <= 1

\* C16 witness: an UNCERTAIN output with a met exclusion and missing
\* information was returned as UNCERTAIN with no rule fired.
C16_Witness ==
    /\ pc = "fixed"
    /\ NormalizedDecision = Lit("UNCERTAIN")
    /\ NonEmpty(fixed, "exclusion_criteria_met")
    /\ NonEmpty(fixed, "missing_info")
    /\ fixed["decision"] = Lit("UNCERTAIN")
    /\ FiredRules = {}

=============================================================================
